---- MODULE Spec2Model ----
(***************************************************************************)
(* Model of the 2D BEM capacitance solver of qsim-mcp:                     *)
(*   src/solver.py                      (direct, dense solve)              *)
(*   src/src/aedt/solver_optimized.py   (matrix-free GMRES solve)          *)
(*                                                                         *)
(* Numbers.  Coordinates and lengths are fixed-point integers; one unit is *)
(* 0.005 GDS units, so the default min_segment_length 0.01 is 2 units.     *)
(* Quotients (panel lengths, interpolated points, charges times lengths)   *)
(* are exact rationals <<numerator, denominator>> in lowest terms.  The    *)
(* input polygons are drawn from shapes whose edges have integer length,   *)
(* so that the Euclidean norm is exact.                                    *)
(*                                                                         *)
(* Library calls.  numpy.linalg.solve and scipy gmres are not computed:    *)
(* their result is drawn from a small family of vectors, and their status  *)
(* (LinAlgError, or the info code of gmres) is chosen by the environment.  *)
(*                                                                         *)
(* The matrix-free operator (MatrixFreeOperator._matvec) is modelled on    *)
(* its own, with the thresholds of the code, for panel counts around them: *)
(* there the panels are only counted, and a product is followed through    *)
(* its row chunks, the pool of worker processes and the merge.             *)
(*                                                                         *)
(* The Octave wrapper (src/src/octave-mcp/octave_openems_server.py) is a   *)
(* third, independent part: its module globals and the tools that change   *)
(* them.                                                                   *)
(***************************************************************************)
EXTENDS Integers, Sequences, FiniteSets, TLC

\* ------------------------------------------------------------------ bounds
MaxPolys == 2
MaxCoord == 3
MaxCid == 1
MaxK == 2
MaxSegLen == 3
MaxOver == 2         \* panel counts up to this many above the pool threshold
MaxMatvecs == 2      \* products followed per operator
MaxClock == 2        \* runs of an Octave script followed
MaxRuns == 3         \* runs of the pipeline followed in one process

\* ------------------------------------------------------- program constants
\* min_segment_length=0.01 of discretize_polygons_optimized, in units of 0.005
DEFAULT_MIN_SEGMENT_LENGTH == 2
\* solve_bem_optimized: use_parallel = n_segments > 1000
USE_PARALLEL_ABOVE == 1000
\* _matvec: if self.use_parallel and self.n_segments > 2000
POOL_ABOVE == 2000
\* MatrixFreeOperator.__init__: chunk_size=1000
DEFAULT_CHUNK_SIZE == 1000
\* MatrixFreeOperator.__init__: self.n_cores = min(cpu_count(), 8)
MAX_CORES == 8
\* solve_bem_optimized: restart=min(50, n_segments//10)
RESTART_CAP == 50
RESTART_DIVISOR == 10
\* solve_bem_optimized: tolerance=1e-6, in units of 1e-10
DEFAULT_TOLERANCE == 10000
\* solve_bem_optimized: max_iterations=1000
DEFAULT_MAX_ITERATIONS == 1000

VARIABLES
    caller,          \* "main": the script's main();  "api": the three functions called in turn
    program,         \* "solver" (solver.py) or "solver_optimized" (solver_optimized.py)
    polygons,        \* polygons_with_ids: sequence of <<poly_verts, conductor_id>>
    max_seg_len,     \* max_segment_length / args.max_seg_len
    min_arg,         \* min_segment_length as supplied by the caller, or NotSupplied
    num_conductors,  \* num_conductors (main: len(layer_map))
    pc,              \* position in the pipeline
    segments,        \* the list returned by the discretizer (None before)
    origin,          \* history: origin[i] = <<polygon index, edge index>> panel i was cut from
    all_sigmas,      \* the local list all_sigmas of solve_bem / solve_bem_optimized
    k,               \* the loop index k of the solver
    oracle,          \* which function the linear solver is in this run
    infos,           \* the info code gmres returned for each conductor solved so far
    printed,         \* the status line printed for each conductor solved so far
    returned,        \* the value returned by the solver (None before)
    ret_diag,        \* diagnostics carried by the solver's return value
    C,               \* the matrix returned by calculate_capacitance_matrix (None before)
    error,           \* the exception that ended the run, or "none"
    segments0,       \* history: the panel list as the discretizer returned it
    rhs,             \* history: the vector V handed to the linear solver for each conductor
    gmres_ops,       \* history: the operator handed to gmres for each conductor
    gmres_args,      \* history: restart, rtol and maxiter handed to gmres for each conductor
    tol_arg,         \* tolerance as supplied by the caller, or NotSupplied
    maxit_arg,       \* max_iterations as supplied by the caller, or NotSupplied
    earlier,         \* history: what each earlier run in this process was given and gave
    \* ---- the influence operator and one product P @ v
    cpu_count,       \* multiprocessing.cpu_count() of the machine
    builder,         \* who constructed the operator: "solve_bem_optimized" or "direct"
    A_op,            \* the MatrixFreeOperator: n_segments, use_parallel, chunk_size, n_cores
    mv_pc,           \* position in _matvec: "idle", "map", "combine", "return"
    chunks,          \* the list chunks of _matvec: row ranges [start, end)
    computed,        \* chunk index -> rows of the block a worker has handed back for it
    workers,         \* live worker processes of the pool
    spawned,         \* processes created by the product under way (or just finished)
    writes,          \* the row ranges assigned to result so far, in order
    matvecs,         \* products finished on this operator
    \* ---- the Octave wrapper
    octave_available,    \* module global octave_available
    current_simulation,  \* module global current_simulation (None or Some(context))
    simulation_results,  \* module global simulation_results: name -> stored results
    scripts,             \* the script files written so far: name -> width parameter
    clock,               \* time.time(), counted in runs
    last_call            \* history: the tool called last, its argument and its outcome

pipeline_vars == <<caller, program, polygons, max_seg_len, min_arg, num_conductors, pc,
                   segments, origin, all_sigmas, k, oracle, infos, printed, returned,
                   ret_diag, C, error, segments0, rhs, gmres_ops, gmres_args, tol_arg,
                   maxit_arg, earlier>>

matvec_vars == <<builder, mv_pc, chunks, computed, workers, spawned, writes, matvecs>>

octave_vars == <<octave_available, current_simulation, simulation_results, scripts, clock,
                 last_call>>

vars == <<pipeline_vars, cpu_count, A_op, matvec_vars, octave_vars>>

inputs == <<caller, program, polygons, max_seg_len, min_arg, num_conductors, tol_arg,
            maxit_arg>>

\* what no step of the solver pipeline touches
others == <<cpu_count, matvec_vars, octave_vars, earlier>>

\* ---------------------------------------------------------------- values
None == [some |-> FALSE, val |-> <<>>]
Some(v) == [some |-> TRUE, val |-> v]

\* an optional argument the caller left out
NotSupplied == None

Abs(x) == IF x < 0 THEN -x ELSE x

RECURSIVE Gcd(_, _)
Gcd(a, b) == IF b = 0 THEN a ELSE Gcd(b, a % b)

\* the rational n/d (d # 0) in lowest terms with a positive denominator
Rat(n, d) ==
    LET g == Gcd(Abs(n), Abs(d))
        an == Abs(n) \div g
    IN  << (IF (n < 0) = (d < 0) THEN an ELSE -an), Abs(d) \div g >>

RatInt(n) == <<n, 1>>
RatAdd(a, b) == Rat(a[1] * b[2] + b[1] * a[2], a[2] * b[2])
RatScale(c, a) == Rat(c * a[1], a[2])
RatLe(a, b) == a[1] * b[2] <= b[1] * a[2]

\* ------------------------------------------------------------ input sets
\* Polygons whose edges all have integer length: a one-vertex polygon (one
\* zero-length edge), two-vertex polygons (the edge and its reverse, of length
\* 1 and of length MaxCoord), and a rectangle (edges 2, 1, 2, 1).
Shapes ==
    {<< <<0, 0>> >>}
    \cup {<< <<0, 0>>, <<a, 0>> >> : a \in {1, MaxCoord}}
    \cup {<< <<0, 0>>, <<2, 0>>, <<2, 1>>, <<0, 1>> >>}

TaggedPolygons == Shapes \X (0..MaxCid)

PolygonLists == UNION {[1..n -> TaggedPolygons] : n \in 0..MaxPolys}

\* ------------------------------------------------------------ discretizer
\* np.linalg.norm of an integer vector of integer length
Norm(v) == CHOOSE n \in 0..(Abs(v[1]) + Abs(v[2])) : n * n = v[1] * v[1] + v[2] * v[2]

\* np.ceil(a / b) for a >= 0, b # 0
CeilDiv(a, b) == IF b > 0 THEN (a + b - 1) \div b ELSE -(a \div (-b))

NumSegments_atLeast1(edge_length, max_segment_length) ==
    IF CeilDiv(edge_length, max_segment_length) = 0 THEN 1
    ELSE CeilDiv(edge_length, max_segment_length)

NumSegments_floor(edge_length, max_segment_length) ==
    IF max_segment_length > 0 THEN edge_length \div max_segment_length
    ELSE -(edge_length \div (-max_segment_length))

NumSegments_plus1(edge_length, max_segment_length) ==
    IF max_segment_length > 0 THEN (edge_length \div max_segment_length) + 1
    ELSE -(edge_length \div (-max_segment_length))

\* num_segments = int(np.ceil(edge_length / max_segment_length))
NumSegments(edge_length, max_segment_length) == CeilDiv(edge_length, max_segment_length)

\* the j-th (0-based) segment dictionary of the edge p1 -> p2 cut in num_segments
Segment(p1, p2, num_segments, j, conductor_id) ==
    LET edge_vector == <<p2[1] - p1[1], p2[2] - p1[2]>>
        edge_length == Norm(edge_vector)
        segment_length == Rat(edge_length, num_segments)
        segment_vector == <<Rat(edge_vector[1], num_segments), Rat(edge_vector[2], num_segments)>>
        half_vector == <<Rat(edge_vector[1], 2 * num_segments),
                         Rat(edge_vector[2], 2 * num_segments)>>
        start_point == <<RatAdd(RatInt(p1[1]), RatScale(j, segment_vector[1])),
                         RatAdd(RatInt(p1[2]), RatScale(j, segment_vector[2]))>>
        end_point == <<RatAdd(start_point[1], segment_vector[1]),
                       RatAdd(start_point[2], segment_vector[2])>>
        center_point == <<RatAdd(start_point[1], half_vector[1]),
                          RatAdd(start_point[2], half_vector[2])>>
    IN  [start |-> start_point, end |-> end_point, center |-> center_point,
         length |-> segment_length, conductor_id |-> conductor_id]

\* for j in range(num_segments): segments.append({...}); each with the edge it came from
EdgeSegments(e, num_segments) ==
    [j \in 1..num_segments |->
        [seg |-> Segment(e.p1, e.p2, num_segments, j - 1, e.conductor_id),
         from |-> <<e.poly, e.edge>>]]

PolyEdges_open(pi, poly_verts, conductor_id) ==
    [i \in 1..(Len(poly_verts) - 1) |->
        [poly |-> pi, edge |-> i, p1 |-> poly_verts[i], p2 |-> poly_verts[i + 1],
         conductor_id |-> conductor_id]]

PolyEdges_indexAsId(pi, poly_verts, conductor_id) ==
    [i \in 1..Len(poly_verts) |->
        [poly |-> pi, edge |-> i, p1 |-> poly_verts[i],
         p2 |-> poly_verts[(i % Len(poly_verts)) + 1], conductor_id |-> pi - 1]]

\* for i in range(len(poly_verts)): p1 = poly_verts[i]; p2 = poly_verts[(i + 1) % len(poly_verts)]
PolyEdges(pi, poly_verts, conductor_id) ==
    [i \in 1..Len(poly_verts) |->
        [poly |-> pi, edge |-> i, p1 |-> poly_verts[i],
         p2 |-> poly_verts[(i % Len(poly_verts)) + 1], conductor_id |-> conductor_id]]

\* the edges in the order the two nested loops visit them
RECURSIVE EdgesFrom(_, _)
EdgesFrom(polygons_with_ids, pi) ==
    IF pi > Len(polygons_with_ids) THEN << >>
    ELSE PolyEdges(pi, polygons_with_ids[pi][1], polygons_with_ids[pi][2])
         \o EdgesFrom(polygons_with_ids, pi + 1)

AllEdges(polygons_with_ids) == EdgesFrom(polygons_with_ids, 1)

EdgeLength(e) == Norm(<<e.p2[1] - e.p1[1], e.p2[2] - e.p1[2]>>)

EdgeSkipped_le(edge_length, min_segment_length) == edge_length <= min_segment_length

\* if edge_length < min_segment_length: total_removed += 1; continue
EdgeSkipped(edge_length, min_segment_length) == edge_length < min_segment_length

\* The body of the edge loop from edge i on.  filtering: the function has the
\* min_segment_length test.  A division by max_segment_length = 0 gives inf
\* (nan for 0/0) and int() of it raises.
RECURSIVE DiscretizeFrom(_, _, _, _, _, _)
DiscretizeFrom(edges, i, max_segment_length, filtering, min_segment_length, acc) ==
    IF i > Len(edges) THEN [raised |-> "none", segs |-> acc]
    ELSE LET e == edges[i]
             edge_length == EdgeLength(e)
         IN  IF filtering /\ EdgeSkipped(edge_length, min_segment_length)
             THEN DiscretizeFrom(edges, i + 1, max_segment_length, filtering,
                                 min_segment_length, acc)
             ELSE IF max_segment_length = 0
             THEN [raised |-> IF edge_length = 0 THEN "ValueError" ELSE "OverflowError",
                   segs |-> << >>]
             ELSE LET num_segments == NumSegments(edge_length, max_segment_length)
                  IN  IF num_segments = 0
                      THEN DiscretizeFrom(edges, i + 1, max_segment_length, filtering,
                                          min_segment_length, acc)
                      ELSE DiscretizeFrom(edges, i + 1, max_segment_length, filtering,
                                          min_segment_length, acc \o EdgeSegments(e, num_segments))

discretize_polygons(polygons_with_ids, max_segment_length) ==
    DiscretizeFrom(AllEdges(polygons_with_ids), 1, max_segment_length, FALSE, 0, << >>)

discretize_polygons_optimized(polygons_with_ids, max_segment_length, min_segment_length) ==
    DiscretizeFrom(AllEdges(polygons_with_ids), 1, max_segment_length, TRUE,
                   min_segment_length, << >>)

MinSegmentLength_zero(supplied) == IF supplied.some THEN supplied.val ELSE 0

\* the parameter min_segment_length of discretize_polygons_optimized (default 0.01),
\* and --min_seg_len of main (default 0.01)
MinSegmentLength(supplied) ==
    IF supplied.some THEN supplied.val ELSE DEFAULT_MIN_SEGMENT_LENGTH

\* ------------------------------------------------------ influence operator
Min(a, b) == IF a <= b THEN a ELSE b

RatMul(a, b) == Rat(a[1] * b[1], a[2] * b[2])

\* the square of np.linalg.norm(seg_i['center'] - seg_j['center'])
Dist2(seg_i, seg_j) ==
    LET dx == RatAdd(seg_i.center[1], RatScale(-1, seg_j.center[1]))
        dy == RatAdd(seg_i.center[2], RatScale(-1, seg_j.center[2]))
    IN  RatAdd(RatMul(dx, dx), RatMul(dy, dy))

\* The coefficients are kept as expressions, not evaluated:
\* -(length / (2 pi epsilon_0)) * (ln(length / 2) - 1)
SelfTerm(length) ==
    [term |-> "self", length |-> length, dist2 |-> RatInt(0), floored |-> FALSE]

\* -(length_j / (2 pi epsilon_0)) * ln(dist), dist given by its square; floored:
\* dist was replaced by eps = 1e-12.  Unfloored with dist2 = 0 is ln(0) = -inf.
OffTerm(length_j, dist2, floored) ==
    [term |-> "off", length |-> length_j, dist2 |-> dist2, floored |-> floored]

\* dist < eps.  Two centres of the model that differ are at least 1/(4 * 36) of
\* a unit apart (their coordinates are fractions over at most 2 * 6), far above 1e-12.
BelowEps(dist2) == dist2[1] = 0

\* dist = max(dist, eps), as the term it leads to
Floored(length_j, dist2) ==
    IF BelowEps(dist2) THEN OffTerm(length_j, RatInt(0), TRUE)
    ELSE OffTerm(length_j, dist2, FALSE)

\* solver.py solve_bem: P[i, j] (1-based here); no floor on dist
DenseInfluence(segs, i, j) ==
    IF i = j THEN SelfTerm(segs[i].length)
    ELSE OffTerm(segs[j].length, Dist2(segs[i], segs[j]), FALSE)

\* _matvec, serial branch: influence for the pair (i, j)
SerialInfluence(segs, i, j) ==
    IF i = j THEN SelfTerm(segs[i].length)
    ELSE Floored(segs[j].length, Dist2(segs[i], segs[j]))

\* compute_influence_chunk((i_start, i_end, segments, j_indices)): the block
\* chunk_result, rows i_start..i_end-1 and one column per entry of j_indices (0-based)
compute_influence_chunk(i_start, i_end, segs, j_indices) ==
    [local_i \in 1..(i_end - i_start) |->
        [local_j \in 1..Len(j_indices) |->
            LET global_i == i_start + local_i - 1
                global_j == j_indices[local_j]
            IN  IF global_i = global_j THEN SelfTerm(segs[global_i + 1].length)
                ELSE Floored(segs[global_j + 1].length,
                             Dist2(segs[global_i + 1], segs[global_j + 1]))]]

\* A sum of coefficient * v[j] over j, as the list of its terms with v[j] # 0 in
\* the order of j (a finite coefficient times 0.0 adds nothing to the sum).
RECURSIVE DotFrom(_, _, _)
DotFrom(row, v, j) ==
    IF j > Len(row) THEN << >>
    ELSE (IF v[j] # 0 THEN << [coef |-> row[j], times |-> v[j]] >> ELSE << >>)
         \o DotFrom(row, v, j + 1)

Dot(row, v) == DotFrom(row, v, 1)

\* min(start + self.chunk_size, self.n_segments)
ChunkEnd_unclipped(start, chunk_size, n) == start + chunk_size

ChunkEnd(start, chunk_size, n) == Min(start + chunk_size, n)

\* chunk_starts = list(range(0, n, chunk_size)) (chunk_size >= 1) and, for each,
\* the row range of the tuple appended to chunks
Chunks(n, chunk_size) ==
    [c \in 1..CeilDiv(n, chunk_size) |->
        [start |-> (c - 1) * chunk_size,
         end |-> ChunkEnd((c - 1) * chunk_size, chunk_size, n)]]

\* result[start:end] = block (rows 0-based, end clipped to the length of result
\* as a slice is; numpy raises ValueError when the lengths then differ)
AssignRows(result, start, end, block) ==
    LET stop == Min(end, Len(result))
    IN  IF stop - start # Len(block) THEN result
        ELSE [r \in 1..Len(result) |->
                 IF r > start /\ r <= stop THEN block[r - start] ELSE result[r]]

\* for i, (start, _, _, _) in enumerate(chunks): end = min(...);
\*     result[start:end] = chunk_results[i] @ v
RECURSIVE CombineFrom(_, _, _, _, _, _)
CombineFrom(result, chunk_list, chunk_results, chunk_size, v, c) ==
    IF c > Len(chunk_list) THEN result
    ELSE LET start == chunk_list[c].start
             end == ChunkEnd(start, chunk_size, Len(result))
             block == chunk_results[c]
             chunk_matvec == [r \in 1..Len(block) |-> Dot(block[r], v)]
         IN  CombineFrom(AssignRows(result, start, end, chunk_matvec),
                         chunk_list, chunk_results, chunk_size, v, c + 1)

\* _matvec, the branch with the pool: every chunk's block is computed by
\* compute_influence_chunk over all columns, then merged
MatvecChunked(segs, v, chunk_size) ==
    LET n == Len(segs)
        chunk_list == Chunks(n, chunk_size)
        j_indices == [j \in 1..n |-> j - 1]
        chunk_results == [c \in 1..Len(chunk_list) |->
                             compute_influence_chunk(chunk_list[c].start, chunk_list[c].end,
                                                     segs, j_indices)]
    IN  CombineFrom([r \in 1..n |-> << >>], chunk_list, chunk_results, chunk_size, v, 1)

\* _matvec, the serial branch: result[i] += influence * v[j] for every i and j
MatvecSerial(segs, v) ==
    [i \in 1..Len(segs) |-> Dot([j \in 1..Len(segs) |-> SerialInfluence(segs, i, j)], v)]

\* MatrixFreeOperator.__init__: n_cores
NCores_uncapped(use_parallel, cpus) == IF use_parallel THEN cpus ELSE 1

NCores(use_parallel, cpus) == IF use_parallel THEN Min(cpus, MAX_CORES) ELSE 1

\* no operator constructed yet
NoOperator ==
    [kind |-> "none", n_segments |-> 0, use_parallel |-> FALSE, chunk_size |-> 0, n_cores |-> 0]

\* solver.py: the dense matrix P, filled once before the loop over the conductors
DenseOperator(n) ==
    [kind |-> "dense", n_segments |-> n, use_parallel |-> FALSE, chunk_size |-> 0, n_cores |-> 0]

\* MatrixFreeOperator(segments, use_parallel, chunk_size) on a machine with cpus
\* processors; self.segments is the caller's list itself (the variable segments)
MatrixFreeOperator(n, use_parallel, chunk_size, cpus) ==
    [kind |-> "matrix_free", n_segments |-> n, use_parallel |-> use_parallel,
     chunk_size |-> chunk_size, n_cores |-> NCores(use_parallel, cpus)]

\* solve_bem_optimized: use_parallel = n_segments > 1000
UseParallel(n) == n > USE_PARALLEL_ABOVE

\* solve_bem_optimized: A_op = MatrixFreeOperator(segments, use_parallel=use_parallel)
SolverOperator(n, cpus) == MatrixFreeOperator(n, UseParallel(n), DEFAULT_CHUNK_SIZE, cpus)

UsesPool_flagOnly(op) == op.use_parallel

\* _matvec: if self.use_parallel and self.n_segments > 2000
UsesPool(op) == op.use_parallel /\ op.n_segments > POOL_ABOVE

\* _matvec as a whole, on a panel list small enough to be written out
matvec(op, segs, v) ==
    IF UsesPool(op) THEN MatvecChunked(segs, v, op.chunk_size) ELSE MatvecSerial(segs, v)

\* ---------------------------------------------------------- charge solver
\* The linear solver is a function of the panels and of V that is not computed
\* here: the run fixes one of a small family of such functions (oracle), each
\* giving vectors with pairwise different entries that differ between conductors.
Oracles == {-1, 1}

\* what np.linalg.solve(P, V) or gmres(A_op, V, ...) hands back for conductor kk
SolverOutput(a, kk, n) == [i \in 1..n |-> a * (i + kk) + 1]

Excitation_accumulated(segs, kk) ==
    [i \in 1..Len(segs) |-> IF segs[i].conductor_id <= kk /\ segs[i].conductor_id >= 0
                            THEN 1 ELSE 0]

Excitation_shifted(segs, kk) ==
    [i \in 1..Len(segs) |-> IF segs[i].conductor_id = kk + 1 THEN 1 ELSE 0]

\* V = np.zeros(n_segments); for i: if segments[i]['conductor_id'] == k: V[i] = 1.0
Excitation(segs, kk) ==
    [i \in 1..Len(segs) |-> IF segs[i].conductor_id = kk THEN 1 ELSE 0]

GmresOperator_rebuilt(op, kk) == [op EXCEPT !.chunk_size = op.chunk_size + kk]

\* the first argument of gmres(A_op, V, ...) in the iteration for conductor kk
GmresOperator(op, kk) == op

Restart_uncapped(n) == n \div RESTART_DIVISOR

\* restart=min(50, n_segments//10)
Restart(n) ==
    IF RESTART_CAP <= n \div RESTART_DIVISOR THEN RESTART_CAP ELSE n \div RESTART_DIVISOR

\* the parameter tolerance of solve_bem_optimized (default 1e-6; main: --tolerance)
Tolerance(supplied) == IF supplied.some THEN supplied.val ELSE DEFAULT_TOLERANCE

\* the parameter max_iterations of solve_bem_optimized (default 1000; main: --max_iter)
MaxIterations(supplied) == IF supplied.some THEN supplied.val ELSE DEFAULT_MAX_ITERATIONS

\* gmres(A_op, V, rtol=tolerance, maxiter=max_iterations, restart=min(50, n_segments//10))
GmresArgs(n, tolerance, max_iterations) ==
    [rtol |-> Tolerance(tolerance), maxiter |-> MaxIterations(max_iterations),
     restart |-> Restart(n)]

\* the info codes of gmres: 0 converged, > 0 iteration budget exhausted, < 0 breakdown
GmresInfos == {-1, 0, 1}

\* the line solve_bem_optimized prints for an info code
StatusLine(info) ==
    IF info = 0 THEN "converged" ELSE IF info > 0 THEN "warning" ELSE "error"

\* return np.array(all_sigmas): the array alone, no status goes with it
ReturnedDiagnostics(info_codes) == << >>

\* ---------------------------------------------------- capacitance extractor
NaN == <<0, 0>>

RECURSIVE ChargeFrom_other(_, _, _, _, _)
ChargeFrom_other(sigma_k, segs, m, i, Q_m) ==
    IF i > Len(segs) THEN Q_m
    ELSE ChargeFrom_other(sigma_k, segs, m, i + 1,
                    IF segs[i].conductor_id # m
                    THEN RatAdd(Q_m, RatScale(sigma_k[i], segs[i].length))
                    ELSE Q_m)

\* Q_m = 0; for i in range(len(segments)):
\*     if segments[i]['conductor_id'] == m: Q_m += sigma_k[i] * segments[i]['length']
RECURSIVE ChargeFrom(_, _, _, _, _)
ChargeFrom(sigma_k, segs, m, i, Q_m) ==
    IF i > Len(segs) THEN Q_m
    ELSE ChargeFrom(sigma_k, segs, m, i + 1,
                    IF segs[i].conductor_id = m
                    THEN RatAdd(Q_m, RatScale(sigma_k[i], segs[i].length))
                    ELSE Q_m)

\* C = np.zeros((K, K)); for k: sigma_k = all_sigmas[k]; for m: C[m, k] = Q_m.
\* all_sigmas[k] raises IndexError when the array has fewer than K rows.
calculate_capacitance_matrix(sigmas, segs, K) ==
    IF K > Len(sigmas)
    THEN [raised |-> "IndexError", C |-> << >>]
    ELSE [raised |-> "none",
          C |-> [m \in 0..(K - 1) |->
                    [kk \in 0..(K - 1) |-> ChargeFrom(sigmas[kk + 1], segs, m, 1, RatInt(0))]]]

\* ------------------------------------------------------------ Octave wrapper
\* the names the caller gives its simulations
SimNames == {"cpw_a", "cpw_b"}

\* a dict with no key
EmptyDict == [n \in {} |-> None]

\* d[key] = value
DictPut(d, key, value) == [n \in DOMAIN d \cup {key} |-> IF n = key THEN value ELSE d[n]]

\* del d[key]
DictDel(d, key) == [n \in DOMAIN d \ {key} |-> d[n]]

\* a tool call as last_call keeps it: ran is the script execute_octave_script was
\* given, before is simulation_results as the call found it
Call(tool, arg, outcome, ran, before) ==
    [tool |-> tool, arg |-> arg, outcome |-> outcome, ran |-> ran, before |-> before]

\* current_simulation = {'name': name, 'script_path': output_dir/name.m, ...}
\* (output_dir and the CPW parameters are left at their defaults)
Context(name) == [name |-> name, script_path |-> name]

\* results = {'name': ..., 'script_path': ..., 'execution_time': time.time(), ...}
Results(sim, now) == [name |-> sim.name, script_path |-> sim.script_path, execution_time |-> now]

\* the module globals right after import, before check_octave_installation()
OctaveGlobals ==
    /\ current_simulation = None
    /\ simulation_results = EmptyDict
    /\ scripts = {}
    /\ clock = 0
    /\ last_call = Call("none", None, "none", None, EmptyDict)

\* no product under way, none done
MatvecIdle ==
    /\ mv_pc = "idle"
    /\ chunks = << >>
    /\ computed = << >>
    /\ workers = 0
    /\ spawned = 0
    /\ writes = << >>
    /\ matvecs = 0

\* ------------------------------------------------------------------ Init
\* the solver pipeline before its first step
PipelineStart ==
    /\ pc = IF caller = "main" THEN "read_gds" ELSE "discretize"
    /\ segments = None
    /\ origin = << >>
    /\ all_sigmas = << >>
    /\ k = 0
    /\ oracle = 1
    /\ infos = << >>
    /\ printed = << >>
    /\ returned = None
    /\ ret_diag = << >>
    /\ C = None
    /\ error = "none"
    /\ segments0 = << >>
    /\ rhs = << >>
    /\ gmres_ops = << >>
    /\ gmres_args = << >>
    /\ earlier = << >>

\* the inputs of a run (tolerance and max_iterations left at their defaults)
InitPipeline ==
    /\ caller \in {"main", "api"}
    /\ program \in {"solver", "solver_optimized"}
    /\ polygons \in PolygonLists
    /\ max_seg_len \in -1..MaxSegLen
    /\ min_arg \in (IF program = "solver" THEN {NotSupplied}
                    ELSE {NotSupplied, Some(0), Some(MaxCoord)})
    /\ num_conductors \in (IF caller = "main" THEN 1..MaxK ELSE 0..MaxK)
    /\ tol_arg = NotSupplied
    /\ maxit_arg = NotSupplied
    /\ PipelineStart

Init ==
    /\ InitPipeline
    /\ A_op = NoOperator
    /\ cpu_count = MAX_CORES
    /\ builder = "solve_bem_optimized"
    /\ MatvecIdle
    /\ octave_available = FALSE
    /\ OctaveGlobals

\* --------------------------------------------------------------- actions
\* main: polygons_with_ids = read_gds(...); if not polygons_with_ids: return
MainReadGds ==
    /\ pc = "read_gds"
    /\ pc' = IF polygons = << >> THEN "exit" ELSE "discretize"
    /\ UNCHANGED <<inputs, others, segments, origin, all_sigmas, k, oracle, infos, printed,
                   returned, ret_diag, C, error, segments0, rhs, gmres_ops, gmres_args, A_op>>

\* what follows a call of the discretizer that produced r
AfterDiscretize(r) ==
    IF r.raised # "none"
    THEN /\ pc' = "raised"
         /\ error' = r.raised
         /\ UNCHANGED <<segments, origin, segments0>>
    ELSE /\ segments' = Some([i \in 1..Len(r.segs) |-> r.segs[i].seg])
         /\ segments0' = [i \in 1..Len(r.segs) |-> r.segs[i].seg]
         /\ origin' = [i \in 1..Len(r.segs) |-> r.segs[i].from]
         \* main: if not segments: return
         /\ pc' = IF caller = "main" /\ r.segs = << >> THEN "exit" ELSE "solve"
         /\ UNCHANGED error

\* solver.py: segments = discretize_polygons(polygons_with_ids, args.max_seg_len)
Discretize ==
    /\ pc = "discretize"
    /\ program = "solver"
    /\ AfterDiscretize(discretize_polygons(polygons, max_seg_len))
    /\ UNCHANGED <<inputs, others, all_sigmas, k, oracle, infos, printed, returned, ret_diag,
                   C, rhs, gmres_ops, gmres_args, A_op>>

\* solver_optimized.py: segments = discretize_polygons_optimized(polygons_with_ids,
\*                                     args.max_seg_len, args.min_seg_len)
DiscretizeOptimized ==
    /\ pc = "discretize"
    /\ program = "solver_optimized"
    /\ AfterDiscretize(discretize_polygons_optimized(polygons, max_seg_len,
                                                     MinSegmentLength(min_arg)))
    /\ UNCHANGED <<inputs, others, all_sigmas, k, oracle, infos, printed, returned, ret_diag,
                   C, rhs, gmres_ops, gmres_args, A_op>>

SolveBegin_unguarded ==
    /\ pc = "solve"
    /\ pc' = "loop"
    /\ oracle' \in Oracles
    /\ A_op' = IF program = "solver" THEN DenseOperator(Len(segments.val))
               ELSE SolverOperator(Len(segments.val), cpu_count)
    /\ all_sigmas' = << >>
    /\ k' = 0
    /\ UNCHANGED <<inputs, others, segments, origin, infos, printed, ret_diag, C, error,
                   segments0, rhs, gmres_ops, gmres_args, returned>>

SolveBegin_carried ==
    /\ pc = "solve"
    /\ IF Len(segments.val) = 0
       THEN /\ returned' = Some(<< >>)
            /\ pc' = "extract"
            /\ UNCHANGED <<oracle, A_op>>
       ELSE /\ pc' = "loop"
            /\ oracle' \in Oracles
            /\ A_op' = IF program = "solver" THEN DenseOperator(Len(segments.val))
                       ELSE SolverOperator(Len(segments.val), cpu_count)
            /\ UNCHANGED returned
    /\ k' = 0
    /\ UNCHANGED <<inputs, others, segments, origin, infos, printed, ret_diag, C, error,
                   segments0, rhs, gmres_ops, gmres_args, all_sigmas>>

\* solve_bem / solve_bem_optimized up to the loop: n_segments == 0 returns np.array([])
SolveBegin ==
    /\ pc = "solve"
    /\ IF Len(segments.val) = 0
       THEN /\ returned' = Some(<< >>)
            /\ pc' = "extract"
            /\ UNCHANGED <<oracle, A_op>>
       ELSE /\ pc' = "loop"
            /\ oracle' \in Oracles
            /\ A_op' = IF program = "solver" THEN DenseOperator(Len(segments.val))
                       ELSE SolverOperator(Len(segments.val), cpu_count)
            /\ UNCHANGED returned
    /\ all_sigmas' = << >>
    /\ k' = 0
    /\ UNCHANGED <<inputs, others, segments, origin, infos, printed, ret_diag, C, error,
                   segments0, rhs, gmres_ops, gmres_args>>

\* solver.py: sigma = np.linalg.solve(P, V); all_sigmas.append(sigma)
SolveDirect ==
    /\ pc = "loop"
    /\ program = "solver"
    /\ k < num_conductors
    /\ LET sigma == SolverOutput(oracle, k, Len(segments.val))
       IN  all_sigmas' = Append(all_sigmas, sigma)
    /\ rhs' = Append(rhs, Excitation(segments.val, k))
    /\ k' = k + 1
    /\ UNCHANGED <<inputs, others, pc, segments, origin, oracle, infos, printed, returned,
                   ret_diag, C, error, segments0, gmres_ops, gmres_args, A_op>>

SolveDirectSingular_partial ==
    /\ pc = "loop"
    /\ program = "solver"
    /\ k < num_conductors
    /\ pc' = "extract"
    /\ error' = "LinAlgError"
    /\ returned' = Some(all_sigmas)
    /\ UNCHANGED <<inputs, others, segments, origin, all_sigmas, k, oracle, infos, printed,
                   ret_diag, C, segments0, rhs, gmres_ops, gmres_args, A_op>>

\* solver.py: np.linalg.solve raises LinAlgError (singular matrix); nothing catches it
SolveDirectSingular ==
    /\ pc = "loop"
    /\ program = "solver"
    /\ k < num_conductors
    /\ pc' = "raised"
    /\ error' = "LinAlgError"
    /\ UNCHANGED <<inputs, others, segments, origin, all_sigmas, k, oracle, infos, printed,
                   returned, ret_diag, C, segments0, rhs, gmres_ops, gmres_args, A_op>>

\* solver_optimized.py: sigma, info = gmres(...); print the status; all_sigmas.append(sigma)
SolveGmres ==
    /\ pc = "loop"
    /\ program = "solver_optimized"
    /\ k < num_conductors
    /\ \E info \in GmresInfos :
          LET sigma == SolverOutput(oracle, k, Len(segments.val))
          IN  /\ all_sigmas' = Append(all_sigmas, sigma)
              /\ infos' = Append(infos, info)
              /\ printed' = Append(printed, StatusLine(info))
    /\ rhs' = Append(rhs, Excitation(segments.val, k))
    /\ gmres_ops' = Append(gmres_ops, GmresOperator(A_op, k))
    /\ gmres_args' = Append(gmres_args, GmresArgs(Len(segments.val), tol_arg, maxit_arg))
    /\ k' = k + 1
    /\ UNCHANGED <<inputs, others, pc, segments, origin, oracle, returned, ret_diag, C, error,
                   segments0, A_op>>

\* return np.array(all_sigmas)
SolveReturn ==
    /\ pc = "loop"
    /\ k = num_conductors
    /\ returned' = Some(all_sigmas)
    /\ ret_diag' = ReturnedDiagnostics(infos)
    /\ pc' = "extract"
    /\ UNCHANGED <<inputs, others, segments, origin, all_sigmas, k, oracle, infos, printed, C,
                   error, segments0, rhs, gmres_ops, gmres_args, A_op>>

\* C = calculate_capacitance_matrix(all_sigmas, segments, num_conductors)
Extract ==
    /\ pc = "extract"
    /\ LET r == calculate_capacitance_matrix(returned.val, segments.val, num_conductors)
       IN  IF r.raised # "none"
           THEN /\ pc' = "raised"
                /\ error' = r.raised
                /\ UNCHANGED C
           ELSE /\ C' = Some(r.C)
                /\ pc' = "done"
                /\ UNCHANGED error
    /\ UNCHANGED <<inputs, others, segments, origin, all_sigmas, k, oracle, infos, printed,
                   returned, ret_diag, segments0, rhs, gmres_ops, gmres_args, A_op>>

Next ==
    \/ MainReadGds
    \/ Discretize
    \/ DiscretizeOptimized
    \/ SolveBegin
    \/ SolveDirect
    \/ SolveDirectSingular
    \/ SolveGmres
    \/ SolveReturn
    \/ Extract

Spec == Init /\ [][Next]_vars

\* The discretizers alone: every input of Init that differs in the polygons, the
\* two lengths or the function called, and the one call of the discretizer.
InitDiscretize ==
    /\ Init
    /\ caller = "api"
    /\ num_conductors = 0

NextDiscretize ==
    \/ Discretize
    \/ DiscretizeOptimized

SpecDiscretize == InitDiscretize /\ [][NextDiscretize]_vars

\* solve_bem_optimized on panel counts around the restart cap of gmres: the
\* two-vertex polygon with an edge of length a gives 2a panels of length 1, so
\* N = 8, 10, 18, 20 and 490, 498, 500, 510, 520, ...  The run ends when the
\* solver returns.
GmresEdgeLengths ==
    {4, 5, 9, 10, (RESTART_CAP * RESTART_DIVISOR) \div 2 - 1}
    \cup {((RESTART_CAP + d) * RESTART_DIVISOR) \div 2 : d \in -1..MaxOver}

InitGmres ==
    /\ caller = "api"
    /\ program = "solver_optimized"
    /\ polygons \in {<< << << <<0, 0>>, <<a, 0>> >>, 0 >> >> : a \in GmresEdgeLengths}
    /\ max_seg_len = 1
    /\ min_arg = NotSupplied
    /\ num_conductors \in 1..MaxK
    /\ tol_arg \in {NotSupplied, Some(1)}
    /\ maxit_arg \in {NotSupplied, Some(RESTART_CAP)}
    /\ PipelineStart
    /\ A_op = NoOperator
    /\ cpu_count = MAX_CORES
    /\ builder = "solve_bem_optimized"
    /\ MatvecIdle
    /\ octave_available = FALSE
    /\ OctaveGlobals

NextGmres ==
    \/ DiscretizeOptimized
    \/ SolveBegin
    \/ SolveGmres
    \/ SolveReturn

SpecGmres == InitGmres /\ [][NextGmres]_vars

\* Several runs in one process: the caller calls the three functions again, with
\* the same configuration, on the same polygons or on other ones.
RunPolygons ==
    {<< >>,
     << << << <<0, 0>>, <<1, 0>> >>, 0 >> >>,
     << << << <<0, 0>>, <<2, 0>>, <<2, 1>>, <<0, 1>> >>, MaxCid >> >>}

RunSegLens == {0, 2}

\* what a run was given and what it gave, taken when the run is over
RunRecord ==
    [polygons |-> polygons, max_seg_len |-> max_seg_len, num_conductors |-> num_conductors,
     oracle |-> oracle, infos |-> infos, pc |-> pc, error |-> error, segments |-> segments,
     returned |-> returned, ret_diag |-> ret_diag, C |-> C]

\* The next call of the pipeline in the same process.  The names bound by a
\* return value (segments, the charge vectors, C) are unbound again; all_sigmas,
\* k and A_op are left as the last call left them, since the functions set them
\* themselves (all_sigmas = [], the for loop, A_op = MatrixFreeOperator(...)).
RunAgain ==
    /\ pc \in {"done", "exit", "raised"}
    /\ Len(earlier) < MaxRuns - 1
    /\ earlier' = Append(earlier, RunRecord)
    /\ polygons' \in RunPolygons
    /\ pc' = IF caller = "main" THEN "read_gds" ELSE "discretize"
    /\ segments' = None
    /\ returned' = None
    /\ ret_diag' = << >>
    /\ C' = None
    /\ error' = "none"
    /\ origin' = << >>
    /\ infos' = << >>
    /\ printed' = << >>
    /\ segments0' = << >>
    /\ rhs' = << >>
    /\ gmres_ops' = << >>
    /\ gmres_args' = << >>
    /\ UNCHANGED <<caller, program, max_seg_len, min_arg, num_conductors, tol_arg, maxit_arg,
                   all_sigmas, k, oracle, A_op, cpu_count, matvec_vars, octave_vars>>

InitRuns ==
    /\ Init
    /\ polygons \in RunPolygons
    /\ max_seg_len \in RunSegLens
    /\ min_arg = NotSupplied
    /\ num_conductors \in 1..MaxK

NextRuns ==
    \/ Next
    \/ RunAgain

SpecRuns == InitRuns /\ [][NextRuns]_vars

\* ------------------------------------------------- Octave wrapper: the tools
\* what no tool of the Octave wrapper touches
not_octave == <<pipeline_vars, cpu_count, A_op, matvec_vars>>

\* check_octave_openems_status: check_octave_installation() sets octave_available
CheckOctaveStatus ==
    /\ octave_available' \in BOOLEAN
    /\ last_call' = Call("check_octave_openems_status", None, "report", None,
                         simulation_results)
    /\ UNCHANGED <<current_simulation, simulation_results, scripts, clock, not_octave>>

\* create_cpw_octave_simulation(name=name); written: os.makedirs and the write
\* of the script went through (an exception is caught and reported)
CreateCpw(name, written) ==
    /\ IF ~octave_available
       THEN /\ last_call' = Call("create_cpw_octave_simulation", Some(name), "no_octave",
                                 None, simulation_results)
            /\ UNCHANGED <<current_simulation, scripts>>
       ELSE IF ~written
       THEN /\ last_call' = Call("create_cpw_octave_simulation", Some(name), "error",
                                 None, simulation_results)
            /\ UNCHANGED <<current_simulation, scripts>>
       ELSE /\ scripts' = scripts \cup {name}
            /\ current_simulation' = Some(Context(name))
            /\ last_call' = Call("create_cpw_octave_simulation", Some(name), "created",
                                 None, simulation_results)
    /\ UNCHANGED <<octave_available, simulation_results, clock, not_octave>>

\* run_octave_simulation from "try:" on, for the simulation chosen; success is
\* what execute_octave_script reports
RunScript(simulation_name, sim_to_run, success) ==
    IF ~success
    THEN /\ last_call' = Call("run_octave_simulation", simulation_name, "failed",
                              Some(sim_to_run.script_path), simulation_results)
         /\ UNCHANGED <<simulation_results, clock>>
    ELSE /\ simulation_results' =
                DictPut(simulation_results, sim_to_run.name, Results(sim_to_run, clock))
         /\ clock' = clock + 1
         /\ last_call' = Call("run_octave_simulation", simulation_name, "completed",
                              Some(sim_to_run.script_path), simulation_results)

\* run_octave_simulation(simulation_name): None runs the current simulation, a
\* name is looked up in simulation_results
RunOctaveSimulation(simulation_name, success) ==
    /\ clock < MaxClock
    /\ IF ~octave_available
       THEN /\ last_call' = Call("run_octave_simulation", simulation_name, "no_octave",
                                 None, simulation_results)
            /\ UNCHANGED <<simulation_results, clock>>
       ELSE IF ~simulation_name.some
       THEN IF ~current_simulation.some
            THEN /\ last_call' = Call("run_octave_simulation", simulation_name,
                                      "no_simulation", None, simulation_results)
                 /\ UNCHANGED <<simulation_results, clock>>
            ELSE RunScript(simulation_name, current_simulation.val, success)
       ELSE IF simulation_name.val \in DOMAIN simulation_results
            THEN RunScript(simulation_name, simulation_results[simulation_name.val], success)
            ELSE /\ last_call' = Call("run_octave_simulation", simulation_name,
                                      "not_found", None, simulation_results)
                 /\ UNCHANGED <<simulation_results, clock>>
    /\ UNCHANGED <<octave_available, current_simulation, scripts, not_octave>>

\* clear_octave_data(simulation_name)
ClearOctaveData(simulation_name) ==
    /\ IF simulation_name = "all"
       THEN /\ simulation_results' = EmptyDict
            /\ current_simulation' = None
            /\ last_call' = Call("clear_octave_data", Some(simulation_name), "cleared_all",
                                 None, simulation_results)
       ELSE IF simulation_name \in DOMAIN simulation_results
       THEN /\ simulation_results' = DictDel(simulation_results, simulation_name)
            /\ current_simulation' =
                   IF current_simulation.some /\ current_simulation.val.name = simulation_name
                   THEN None ELSE current_simulation
            /\ last_call' = Call("clear_octave_data", Some(simulation_name), "cleared",
                                 None, simulation_results)
       ELSE /\ last_call' = Call("clear_octave_data", Some(simulation_name), "not_found",
                                 None, simulation_results)
            /\ UNCHANGED <<simulation_results, current_simulation>>
    /\ UNCHANGED <<octave_available, scripts, clock, not_octave>>

\* the module is imported (check_octave_installation() has run once), nothing
\* of the solver is in use
InitOctave ==
    /\ InitPipeline
    /\ caller = "api"
    /\ program = "solver"
    /\ polygons = << >>
    /\ max_seg_len = 1
    /\ num_conductors = 0
    /\ A_op = NoOperator
    /\ cpu_count = MAX_CORES
    /\ builder = "solve_bem_optimized"
    /\ MatvecIdle
    /\ octave_available \in BOOLEAN
    /\ OctaveGlobals

NextOctave ==
    \/ CheckOctaveStatus
    \/ \E name \in SimNames, written \in BOOLEAN : CreateCpw(name, written)
    \/ \E simulation_name \in {None} \cup {Some(n) : n \in SimNames}, success \in BOOLEAN :
          RunOctaveSimulation(simulation_name, success)
    \/ \E simulation_name \in SimNames \cup {"all"} : ClearOctaveData(simulation_name)

SpecOctave == InitOctave /\ [][NextOctave]_vars

\* ------------------------------------------ one product P @ v, step by step
\* what no step of a product touches
not_matvec == <<pipeline_vars, octave_vars>>

\* panel counts around the two thresholds of the code
Sizes ==
    {1, USE_PARALLEL_ABOVE, USE_PARALLEL_ABOVE + 1, POOL_ABOVE}
    \cup {POOL_ABOVE + d : d \in 1..MaxOver}

\* chunk sizes a caller of MatrixFreeOperator may pass: the default, a divisor
\* of 2001, one chunk for 2001 rows, and more than all rows
ChunkSizes == {DEFAULT_CHUNK_SIZE, 667, POOL_ABOVE + 1, 3000}

\* what multiprocessing.cpu_count() may return
CpuCounts == {1, 2, MAX_CORES, MAX_CORES + MaxOver}

PoolAfterWith_leak(alive) == alive

\* leaving "with Pool(self.n_cores) as pool:" calls pool.terminate(), which stops
\* and joins every worker process
PoolAfterWith(alive) == 0

\* _matvec up to pool.map (parallel branch: the chunk list is built and
\* Pool(self.n_cores) starts its processes), or the whole serial branch
MatvecCall ==
    /\ mv_pc = "idle"
    /\ matvecs < MaxMatvecs
    /\ IF UsesPool(A_op)
       THEN /\ chunks' = Chunks(A_op.n_segments, A_op.chunk_size)
            /\ workers' = A_op.n_cores
            /\ spawned' = A_op.n_cores
            /\ writes' = << >>
            /\ mv_pc' = "map"
       ELSE /\ chunks' = << >>
            /\ workers' = 0
            /\ spawned' = 0
            /\ writes' = << [start |-> 0, end |-> A_op.n_segments,
                             rows |-> A_op.n_segments] >>
            /\ mv_pc' = "return"
    /\ computed' = << >>
    /\ UNCHANGED <<matvecs, builder, A_op, cpu_count, not_matvec>>

\* a worker of the pool runs compute_influence_chunk on chunk c and hands back
\* a block of i_end - i_start rows
WorkerCompute(c) ==
    /\ mv_pc = "map"
    /\ c \in (1..Len(chunks)) \ DOMAIN computed
    /\ workers > 0
    /\ computed' = [d \in DOMAIN computed \cup {c} |->
                       IF d = c THEN chunks[c].end - chunks[c].start ELSE computed[d]]
    /\ UNCHANGED <<mv_pc, chunks, workers, spawned, writes, matvecs, builder, A_op,
                   cpu_count, not_matvec>>

\* pool.map returns once every chunk has its block, and the with block is left
PoolMapReturns ==
    /\ mv_pc = "map"
    /\ DOMAIN computed = 1..Len(chunks)
    /\ workers' = PoolAfterWith(workers)
    /\ mv_pc' = "combine"
    /\ UNCHANGED <<chunks, computed, spawned, writes, matvecs, builder, A_op, cpu_count,
                   not_matvec>>

\* one round of the combine loop: result[start:end] = chunk_results[i] @ v
CombineChunk ==
    /\ mv_pc = "combine"
    /\ LET c == Len(writes) + 1
           start == chunks[c].start
           end == ChunkEnd(start, A_op.chunk_size, A_op.n_segments)
       IN  /\ writes' = Append(writes, [start |-> start,
                                        end |-> Min(end, A_op.n_segments),
                                        rows |-> computed[c]])
           /\ mv_pc' = IF c = Len(chunks) THEN "return" ELSE "combine"
    /\ UNCHANGED <<chunks, computed, workers, spawned, matvecs, builder, A_op, cpu_count,
                   not_matvec>>

\* return result
MatvecReturn ==
    /\ mv_pc = "return"
    /\ mv_pc' = "idle"
    /\ matvecs' = matvecs + 1
    /\ UNCHANGED <<chunks, computed, workers, spawned, writes, builder, A_op, cpu_count,
                   not_matvec>>

\* an operator just constructed, by solve_bem_optimized or by a caller of the
\* class, over a panel list of one of the sizes
InitMatvec ==
    /\ InitPipeline
    /\ caller = "api"
    /\ program = "solver_optimized"
    /\ polygons = << >>
    /\ max_seg_len = 1
    /\ min_arg = NotSupplied
    /\ num_conductors = 0
    /\ octave_available = FALSE
    /\ OctaveGlobals
    /\ cpu_count \in CpuCounts
    /\ builder \in {"solve_bem_optimized", "direct"}
    /\ A_op \in (IF builder = "solve_bem_optimized"
                 THEN {SolverOperator(n, cpu_count) : n \in Sizes}
                 ELSE {MatrixFreeOperator(n, use_parallel, chunk_size, cpu_count) :
                          n \in Sizes, use_parallel \in BOOLEAN, chunk_size \in ChunkSizes})
    /\ MatvecIdle

NextMatvec ==
    \/ MatvecCall
    \/ \E c \in 1..Len(chunks) : WorkerCompute(c)
    \/ PoolMapReturns
    \/ CombineChunk
    \/ MatvecReturn

SpecMatvec == InitMatvec /\ [][NextMatvec]_vars

\* ============================================================== claims
\* the panels of a discretizer result, without the edge each came from
Panels(r) == [i \in 1..Len(r.segs) |-> r.segs[i].seg]

\* the edge <<polygon index, edge index>> of the input
EdgeAt(id) == CHOOSE e \in {AllEdges(polygons)[i] : i \in 1..Len(AllEdges(polygons))} :
                  <<e.poly, e.edge>> = id

EdgeIds == {<<AllEdges(polygons)[i].poly, AllEdges(polygons)[i].edge>> :
               i \in 1..Len(AllEdges(polygons))}

\* the indices of the emitted panels cut from edge id
PanelsOf(id) == {i \in 1..Len(origin) : origin[i] = id}

\* the sum of f over the finite set S
RECURSIVE RatSum(_, _)
RatSum(f, S) ==
    IF S = {} THEN RatInt(0)
    ELSE LET x == CHOOSE y \in S : TRUE
         IN  RatAdd(f[x], RatSum(f, S \ {x}))

\* the discretizer has just returned its list (nothing changes the list afterwards)
Discretized == segments.some /\ pc \in {"solve", "exit"}

EffectiveMin == IF program = "solver" THEN 0 ELSE MinSegmentLength(min_arg)

\* C1: for max_segment_length > 0, every panel either discretizer emits has
\* length <= max_segment_length.
C1_PanelLengthBound ==
    (Discretized /\ max_seg_len > 0) =>
        \A i \in 1..Len(segments.val) :
            RatLe(segments.val[i].length, RatInt(max_seg_len))

\* an edge of length 3 was cut, with max_segment_length = 2, into panels of length 3/2
C1_Witness ==
    /\ Discretized
    /\ max_seg_len = 2
    /\ \E i \in 1..Len(segments.val) : segments.val[i].length = <<3, 2>>

\* C2: C[m][k] is the sum of sigma_k[i] * length_i over exactly the panels i of
\* conductor m, for every excitation k and target m in 0..K-1.
C2_CapacitanceSum ==
    C.some =>
        \A m \in 0..(num_conductors - 1), kk \in 0..(num_conductors - 1) :
            C.val[m][kk] =
                RatSum([i \in 1..Len(segments.val) |->
                           RatScale(returned.val[kk + 1][i], segments.val[i].length)],
                       {i \in 1..Len(segments.val) : segments.val[i].conductor_id = m})

\* a 2 x 2 matrix over panels of both conductors, with an off-diagonal entry that is not 0
C2_Witness ==
    /\ C.some
    /\ num_conductors = 2
    /\ \E i, j \in 1..Len(segments.val) :
          segments.val[i].conductor_id = 0 /\ segments.val[j].conductor_id = 1
    /\ C.val[0][1] # RatInt(0)
    /\ C.val[0][1] # C.val[1][1]

\* C3: when gmres reports a breakdown (info < 0) for conductor k, the other
\* conductors are still solved and column k of the capacitance matrix is marked
\* invalid (NaN) instead of carrying the failed solve's values.
C3_BreakdownColumnInvalid ==
    /\ (\E kk \in 1..Len(infos) : infos[kk] < 0) => error = "none"
    /\ C.some =>
          \A kk \in 1..Len(infos) :
              infos[kk] < 0 => \A m \in 0..(num_conductors - 1) : C.val[m][kk - 1] = NaN

\* C4: when gmres exhausts its iteration budget (info > 0) for conductor k, the
\* run goes on, the full K x K matrix is produced from the best-effort sigma_k,
\* and the returned result carries a convergence warning for conductor k.
C4_WarningAttached ==
    /\ (\E kk \in 1..Len(infos) : infos[kk] > 0) => error = "none"
    /\ C.some => DOMAIN C.val = 0..(num_conductors - 1)
    /\ returned.some =>
          \A kk \in 1..Len(infos) :
              infos[kk] > 0 => (kk \in DOMAIN ret_diag /\ ret_diag[kk] = "warning")

\* C5: in direct mode a singular system (LinAlgError) for any conductor k ends
\* the whole computation: the solver returns nothing, not even the vectors of
\* conductors 0..k-1, and no capacitance matrix is produced.
C5_SingularAborts ==
    error = "LinAlgError" => (pc = "raised" /\ returned = None /\ C = None)

\* the solve of conductor 1 raised after conductor 0 had been solved
C5_Witness ==
    /\ error = "LinAlgError"
    /\ k = 1
    /\ Len(all_sigmas) = 1

\* C6: an empty polygon set, zero conductors or max_segment_length <= 0 is
\* rejected before any discretization or solve, and no panel list, charge
\* vectors or matrix is produced.
C6_InputRejected ==
    (polygons = << >> \/ num_conductors = 0 \/ max_seg_len <= 0) =>
        /\ segments = None
        /\ returned = None
        /\ C = None
        /\ pc \in {"read_gds", "discretize", "exit", "raised"}

\* C7: with zero polygons (and a valid max_segment_length), discretize -> solve
\* -> extract gives an empty panel collection, then a zero-size capacitance
\* matrix, and no step raises.
C7_EmptyPipeline ==
    (caller = "api" /\ polygons = << >> /\ max_seg_len > 0) =>
        /\ error = "none"
        /\ segments.some => segments.val = << >>
        /\ C.some => C.val = << >>

C10_PanelCount ==
    (Discretized /\ max_seg_len > 0) =>
        \A id \in EdgeIds :
            LET L == EdgeLength(EdgeAt(id))
                n == Cardinality(PanelsOf(id))
            IN  (L > 0 /\ L >= EffectiveMin) =>
                    /\ n * max_seg_len >= L
                    /\ (n - 1) * max_seg_len < L
                    /\ \A i \in PanelsOf(id) :
                          RatScale(n, segments.val[i].length) = RatInt(L)
                    /\ (max_seg_len = L => n = 1)
                    /\ (3 * max_seg_len = L => n = 3)

\* an edge of length 3 was cut with max_segment_length = 1 into 3 panels of length 1
C10_Witness ==
    /\ Discretized
    /\ \E id \in EdgeIds :
          /\ EdgeLength(EdgeAt(id)) = 3 * max_seg_len
          /\ Cardinality(PanelsOf(id)) = 3
          /\ \A i \in PanelsOf(id) : segments.val[i].length = RatInt(max_seg_len)

\* the j-th standard basis vector of length n
BasisVector(n, j) == [i \in 1..n |-> IF i = j THEN 1 ELSE 0]

\* column j of the dense influence matrix, each entry as the one-term sum P[i][j] * 1
DenseColumn(segs, j) ==
    [i \in 1..Len(segs) |-> << [coef |-> DenseInfluence(segs, i, j), times |-> 1] >>]

\* C11: for a fixed panel set and every index j, the matrix-free product with the
\* j-th standard basis vector is column j of the dense influence matrix built
\* from the same panels, on the serial path and on the chunked path.
C11_MatvecIsDenseColumn ==
    Discretized =>
        \A j \in 1..Len(segments.val) :
            /\ MatvecSerial(segments.val, BasisVector(Len(segments.val), j))
                   = DenseColumn(segments.val, j)
            /\ \A chunk_size \in {1, DEFAULT_CHUNK_SIZE} :
                   MatvecChunked(segments.val, BasisVector(Len(segments.val), j), chunk_size)
                       = DenseColumn(segments.val, j)

\* the solves recorded so far are those of conductors 0, 1, ... in this order,
\* each for the excitation of its own conductor, each with its status line
SolvedInOrder ==
    /\ Len(all_sigmas) = k
    /\ Len(rhs) = k
    /\ program = "solver_optimized" => (Len(infos) = k /\ Len(printed) = k)
    /\ \A kk \in 0..(k - 1) :
          /\ all_sigmas[kk + 1] = SolverOutput(oracle, kk, Len(segments.val))
          /\ \A i \in 1..Len(segments.val) :
                rhs[kk + 1][i] = 1 <=> segments.val[i].conductor_id = kk
          /\ \A i \in 1..Len(segments.val) : rhs[kk + 1][i] \in {0, 1}

C14_RunByName ==
    (/\ last_call.tool = "run_octave_simulation"
     /\ last_call.arg.some
     /\ last_call.arg.val \in scripts
     /\ octave_available) =>
        /\ last_call.outcome # "not_found"
        /\ last_call.ran = Some(last_call.arg.val)

\* C15: after clear_octave_data("all") simulation_results is empty and
\* current_simulation is None; after clear_octave_data(X) there is no entry X in
\* simulation_results, current_simulation does not name X, and every entry with
\* another name is as it was.
C15_ClearResets ==
    last_call.tool = "clear_octave_data" =>
        LET X == last_call.arg.val
        IN  IF X = "all"
            THEN simulation_results = EmptyDict /\ current_simulation = None
            ELSE /\ X \notin DOMAIN simulation_results
                 /\ ~(current_simulation.some /\ current_simulation.val.name = X)
                 /\ \A n \in (DOMAIN last_call.before) \ {X} :
                       /\ n \in DOMAIN simulation_results
                       /\ simulation_results[n] = last_call.before[n]

\* the writes to result that touch row r (0-based)
WritesTo(r) == {w \in 1..Len(writes) : writes[w].start <= r /\ r < writes[w].end}

\* C16: in the chunked product the row ranges [start, min(start + chunk_size, N))
\* handed to the workers are pairwise disjoint and cover [0, N) exactly, each
\* block is written to the rows of its own chunk only, and after the merge every
\* output row has been written exactly once (N a multiple of chunk_size or not).
C16_ChunksPartitionRows ==
    Len(chunks) > 0 =>
        LET N == A_op.n_segments
        IN  /\ \A c \in 1..Len(chunks) :
                  /\ 0 <= chunks[c].start
                  /\ chunks[c].start < chunks[c].end
                  /\ chunks[c].end <= N
            /\ \A c, d \in 1..Len(chunks) :
                  c # d => (chunks[c].end <= chunks[d].start \/ chunks[d].end <= chunks[c].start)
            /\ (mv_pc = "map" /\ DOMAIN computed = {}) =>
                  \A r \in 0..(N - 1) :
                      \E c \in 1..Len(chunks) : chunks[c].start <= r /\ r < chunks[c].end
            /\ \A w \in 1..Len(writes) :
                  /\ writes[w].start = chunks[w].start
                  /\ writes[w].end = chunks[w].end
                  /\ writes[w].rows = writes[w].end - writes[w].start
            /\ mv_pc = "return" =>
                  \A r \in 0..(N - 1) : Cardinality(WritesTo(r)) = 1

\* 2001 rows in chunks of 1000 were merged: the last block is the single row 2000
C16_Witness ==
    /\ mv_pc = "return"
    /\ A_op.n_segments = POOL_ABOVE + 1
    /\ A_op.chunk_size = DEFAULT_CHUNK_SIZE
    /\ Len(writes) = 3
    /\ writes[3] = [start |-> 2 * DEFAULT_CHUNK_SIZE, end |-> POOL_ABOVE + 1, rows |-> 1]

\* C17: a product returns only after every row chunk has been computed and
\* merged on the calling thread, and the pool it created has been torn down
\* before it returns: no worker is alive outside pool.map, so none when the next
\* product (or the next conductor's solve) starts.
C17_SynchronousMatvec ==
    /\ workers > 0 => mv_pc = "map"
    /\ mv_pc \in {"idle", "combine", "return"} => workers = 0
    /\ (mv_pc \in {"idle", "return"} /\ Len(chunks) > 0) =>
          /\ DOMAIN computed = 1..Len(chunks)
          /\ Len(writes) = Len(chunks)

\* a second pooled product with 8 workers is about to return, with its three
\* chunks merged and no worker left
C17_Witness ==
    /\ mv_pc = "return"
    /\ matvecs = 1
    /\ spawned = MAX_CORES
    /\ workers = 0
    /\ Len(chunks) = 3
    /\ Len(writes) = 3

\* C18: for an operator built by solve_bem_optimized a product creates a worker
\* pool if and only if N > 2000; for N <= 2000, also for 1000 < N <= 2000 where
\* use_parallel is set, it is computed serially without creating any process.
C18_PoolOnlyAboveThreshold ==
    (builder = "solve_bem_optimized" /\ (mv_pc # "idle" \/ matvecs > 0)) =>
        /\ spawned > 0 <=> A_op.n_segments > POOL_ABOVE
        /\ A_op.n_segments <= POOL_ABOVE =>
              /\ workers = 0
              /\ chunks = << >>
              /\ mv_pc \in {"idle", "return"}

\* N = 2000: use_parallel is set, and the product was computed without a process
C18_Witness ==
    /\ builder = "solve_bem_optimized"
    /\ A_op.n_segments = POOL_ABOVE
    /\ A_op.use_parallel
    /\ mv_pc = "return"
    /\ spawned = 0
    /\ writes = << [start |-> 0, end |-> POOL_ABOVE, rows |-> POOL_ABOVE] >>

\* C19: the number of workers of the pool is never more than 8 and never less
\* than 1, whatever the machine's CPU count, and it is fixed at the operator's
\* construction and the same in every product.
C19_WorkerCount ==
    /\ A_op.n_cores = IF A_op.use_parallel
                      THEN (IF cpu_count < MAX_CORES THEN cpu_count ELSE MAX_CORES)
                      ELSE 1
    /\ A_op.n_cores >= 1
    /\ A_op.n_cores <= MAX_CORES
    /\ mv_pc = "map" => workers = A_op.n_cores
    /\ spawned \in {0, A_op.n_cores}
    /\ workers \in {0, A_op.n_cores}

\* on a machine with more than 8 processors the second product's pool has 8 workers
C19_Witness ==
    /\ cpu_count > MAX_CORES
    /\ mv_pc = "map"
    /\ matvecs = 1
    /\ workers = MAX_CORES

\* C20: the panel collection and the influence operator are read-only during the
\* solve: while and after the solver and the extractor run, every panel (start,
\* end, center, length, conductor_id) and the panel order are as the discretizer
\* returned them, and one operator, with the same panels, chunk size and worker
\* count, is handed to all K conductor solves.
C20_PanelsAndOperatorReadOnly ==
    /\ segments.some => segments.val = segments0
    /\ (pc \in {"loop", "extract", "done"} /\ segments.some /\ Len(segments.val) > 0) =>
          /\ A_op.n_segments = Len(segments.val)
          /\ A_op.kind = IF program = "solver" THEN "dense" ELSE "matrix_free"
          /\ program = "solver_optimized" =>
                /\ Len(gmres_ops) = k
                /\ A_op.chunk_size = DEFAULT_CHUNK_SIZE
                /\ A_op.n_cores = 1
                /\ \A kk \in 1..Len(gmres_ops) : gmres_ops[kk] = A_op

\* two conductors were solved by gmres and the matrix extracted
C20_Witness ==
    /\ pc = "done"
    /\ program = "solver_optimized"
    /\ num_conductors = 2
    /\ Len(gmres_ops) = 2
    /\ Len(segments.val) > 1
    /\ C.some

\* C21: for every conductor k the boundary-condition vector built for its solve
\* has length N, with V_k[i] = 1 exactly when panel i has conductor_id = k and 0
\* otherwise; it is built fresh for each k, so no entry set for conductor k-1 is
\* still 1 in V_k.
C21_FreshExcitation ==
    segments.some =>
        \A kk \in 0..(Len(rhs) - 1) :
            /\ DOMAIN rhs[kk + 1] = 1..Len(segments.val)
            /\ \A i \in 1..Len(segments.val) :
                  rhs[kk + 1][i] = IF segments.val[i].conductor_id = kk THEN 1 ELSE 0
            /\ kk > 0 =>
                  \A i \in 1..Len(segments.val) :
                      (rhs[kk][i] = 1 /\ segments.val[i].conductor_id = kk - 1) =>
                          rhs[kk + 1][i] = 0

\* the vector of conductor 0 had a 1 that the vector of conductor 1 no longer has,
\* and the vector of conductor 1 has a 1 of its own
C21_Witness ==
    /\ Len(rhs) = 2
    /\ \E i, j \in 1..Len(segments.val) :
          /\ rhs[1][i] = 1
          /\ rhs[2][i] = 0
          /\ rhs[2][j] = 1
          /\ rhs[1][j] = 0

\* C22: when the panel collection is empty (N = 0) the charge solver returns an
\* empty result immediately, for every K: it builds no influence matrix or
\* operator and no boundary vector, and calls neither the direct solver nor GMRES.
C22_EmptyReturnsAtOnce ==
    (segments.some /\ Len(segments.val) = 0) =>
        /\ pc # "loop"
        /\ A_op = NoOperator
        /\ rhs = << >>
        /\ gmres_ops = << >>
        /\ all_sigmas = << >>
        /\ infos = << >>
        /\ printed = << >>
        /\ k = 0
        /\ pc \in {"extract", "done", "raised"} => returned = Some(<< >>)

\* the solver was called with no panel and K = 2, and has returned the empty array
C22_Witness ==
    /\ segments = Some(<< >>)
    /\ num_conductors = 2
    /\ pc = "extract"
    /\ returned = Some(<< >>)

\* C23: every panel of the panel collection has length > 0: a zero-length edge
\* (here: the edge of a one-vertex polygon) gives no panel, for every
\* max_segment_length and min_segment_length.
C23_PositiveLength ==
    Discretized =>
        /\ \A i \in 1..Len(segments.val) :
              segments.val[i].length[1] > 0 /\ segments.val[i].length[2] > 0
        /\ \A id \in EdgeIds : EdgeLength(EdgeAt(id)) = 0 => PanelsOf(id) = {}

\* the unfiltered loop (min_segment_length = 0) met a zero-length edge and cut
\* panels from the other polygon only
C23_Witness ==
    /\ Discretized
    /\ program = "solver_optimized"
    /\ min_arg = Some(0)
    /\ Len(segments.val) > 0
    /\ \E id \in EdgeIds : EdgeLength(EdgeAt(id)) = 0 /\ PanelsOf(id) = {}

\* C24: every panel carries the conductor id of the polygon whose edge it was cut
\* from, whatever the order of the conductors in the input and also when several
\* polygons share one conductor id.
C24_ParentConductorId ==
    Discretized =>
        \A i \in 1..Len(segments.val) :
            /\ origin[i][1] \in 1..Len(polygons)
            /\ segments.val[i].conductor_id = polygons[origin[i][1]][2]

\* the polygon of conductor 1 came before the polygon of conductor 0, and both gave panels
C24_Witness ==
    /\ Discretized
    /\ Len(polygons) = 2
    /\ polygons[1][2] = 1
    /\ polygons[2][2] = 0
    /\ \E i, j \in 1..Len(segments.val) :
          /\ origin[i][1] = 1 /\ segments.val[i].conductor_id = 1
          /\ origin[j][1] = 2 /\ segments.val[j].conductor_id = 0

\* a solve by gmres has been recorded
GmresCalled == program = "solver_optimized" /\ segments.some /\ Len(gmres_args) > 0

\* C25: the restart parameter passed to gmres for N panels is min(50,
\* floor(N / 10)), never above 50 and never above N / 10, and the relative
\* tolerance and the maximum iteration count passed are the configured values
\* (1e-6 and 1000 when not supplied), the same for all K conductor solves.
C25_GmresParameters ==
    GmresCalled =>
        LET N == Len(segments.val)
        IN  \A kk \in 1..Len(gmres_args) :
                /\ gmres_args[kk].restart <= RESTART_CAP
                /\ gmres_args[kk].restart * RESTART_DIVISOR <= N
                /\ \/ gmres_args[kk].restart = RESTART_CAP
                   \/ (gmres_args[kk].restart + 1) * RESTART_DIVISOR > N
                /\ gmres_args[kk].rtol = IF tol_arg.some THEN tol_arg.val ELSE DEFAULT_TOLERANCE
                /\ gmres_args[kk].maxiter =
                       IF maxit_arg.some THEN maxit_arg.val ELSE DEFAULT_MAX_ITERATIONS
                /\ gmres_args[kk] = gmres_args[1]

\* 510 panels or more and two conductors: restart 50 (not 51), with the default tolerance
\* and a supplied iteration count, twice
C25_Witness ==
    /\ GmresCalled
    /\ Len(segments.val) > RESTART_CAP * RESTART_DIVISOR
    /\ ~tol_arg.some
    /\ maxit_arg.some
    /\ Len(gmres_args) = 2
    /\ gmres_args[2] = [rtol |-> DEFAULT_TOLERANCE, maxiter |-> maxit_arg.val,
                        restart |-> RESTART_CAP]

\* C26: for every panel collection that is not empty (N >= 1, N < 10 included)
\* the restart parameter solve_bem_optimized hands to gmres is a positive integer.
C26_RestartPositive ==
    GmresCalled => \A kk \in 1..Len(gmres_args) : gmres_args[kk].restart >= 1

\* the argument of the logarithm of a coefficient is positive: an off-diagonal
\* term either had its distance replaced by eps or has a distance that is not 0
FiniteCoefficient(coef) ==
    coef.term = "off" => (coef.floored \/ coef.dist2[1] # 0)

\* C27: for any two distinct panels, two panels with the same centre included,
\* the distance whose logarithm enters the off-diagonal influence coefficient is
\* at least the floor 1e-12, so every coefficient is finite, in the dense matrix
\* of solve_bem, in the serial matvec and in compute_influence_chunk, and the
\* last two apply the floor identically.
C27_FloorOnEveryCoefficient ==
    Discretized =>
        \A i, j \in 1..Len(segments.val) :
            i # j =>
                /\ FiniteCoefficient(DenseInfluence(segments.val, i, j))
                /\ FiniteCoefficient(SerialInfluence(segments.val, i, j))
                /\ compute_influence_chunk(i - 1, i, segments.val, <<j - 1>>)[1][1]
                       = SerialInfluence(segments.val, i, j)

\* the run under way was given what the earlier run r was given (the program,
\* the caller and the optional arguments are those of the process)
SameInput(r) ==
    /\ r.polygons = polygons
    /\ r.max_seg_len = max_seg_len
    /\ r.num_conductors = num_conductors

\* the linear solver, a function of the system it is given, answered in the run
\* under way as it did in the earlier run r
SameSolverAnswers(r) ==
    /\ r.oracle = oracle
    /\ r.infos = infos
    /\ (r.error = "LinAlgError") = (error = "LinAlgError")

RatPoint(p) == <<RatInt(p[1]), RatInt(p[2])>>

\* the panels with indices lo..hi of segs run from p1 to p2 without gap or
\* overlap, each with its centre in the middle, and their lengths add up to len
Tiles(segs, lo, hi, p1, p2, len) ==
    /\ segs[lo].start = RatPoint(p1)
    /\ \A i \in lo..(hi - 1) : segs[i].end = segs[i + 1].start
    /\ segs[hi].end = RatPoint(p2)
    /\ \A i \in lo..hi, c \in 1..2 :
          RatScale(2, segs[i].center[c]) = RatAdd(segs[i].start[c], segs[i].end[c])
    /\ RatSum([i \in lo..hi |-> segs[i].length], lo..hi) = RatInt(len)

\* C29: the panels cut from one edge p1 -> p2 tile the edge exactly and in order
\* (the first starts at p1, each ends where the next starts, the last ends at
\* p2, each centre is the midpoint of start and end, the lengths sum to the
\* edge length), and the edges of a polygon are taken cyclically: vertex i to
\* vertex i+1, and the closing edge from the last vertex to the first exactly
\* once, the blocks of panels in the order of the edges (an edge that is cut at
\* all: of positive length, not below min_segment_length, max_segment_length > 0).
C29_PanelsTileEdges ==
    Discretized =>
        /\ \A i \in 1..Len(origin) :
              /\ origin[i][1] \in 1..Len(polygons)
              /\ origin[i][2] \in 1..Len(polygons[origin[i][1]][1])
        /\ \A i \in 1..(Len(origin) - 1) :
              \/ origin[i][1] < origin[i + 1][1]
              \/ origin[i][1] = origin[i + 1][1] /\ origin[i][2] <= origin[i + 1][2]
        /\ \A pi \in 1..Len(polygons) :
              LET poly_verts == polygons[pi][1]
                  n == Len(poly_verts)
              IN  \A i \in 1..n :
                     LET p1 == poly_verts[i]
                         p2 == IF i = n THEN poly_verts[1] ELSE poly_verts[i + 1]
                         len == Norm(<<p2[1] - p1[1], p2[2] - p1[2]>>)
                         S == PanelsOf(<<pi, i>>)
                     IN  /\ (max_seg_len > 0 /\ len > 0 /\ len >= EffectiveMin) => S # {}
                         /\ S # {} =>
                                LET lo == CHOOSE x \in S : \A y \in S : x <= y
                                    hi == CHOOSE x \in S : \A y \in S : y <= x
                                IN  /\ S = lo..hi
                                    /\ Tiles(segments.val, lo, hi, p1, p2, len)

\* the closing edge (3,0) -> (0,0) of a two-vertex polygon was cut into three
\* panels, the last of which ends at the first vertex
C29_Witness ==
    /\ Discretized
    /\ max_seg_len > 0
    /\ \E pi \in 1..Len(polygons) :
          /\ polygons[pi][1] = << <<0, 0>>, <<MaxCoord, 0>> >>
          /\ Cardinality(PanelsOf(<<pi, 2>>)) = 3
          /\ \E hi \in PanelsOf(<<pi, 2>>) :
                /\ \A y \in PanelsOf(<<pi, 2>>) : y <= hi
                /\ segments.val[hi].end = RatPoint(<<0, 0>>)

\* C30: every panel is accounted for in exactly one row of the capacitance
\* matrix: for every excitation k the sum of C[m][k] over m in 0..K-1 is the sum
\* of sigma_k[i] * length_i over all N panels, and every panel is excited
\* (V_k[i] = 1) in exactly one of the K solves, for any panel collection handed
\* to the solver together with K (K >= 1).
C30_EveryPanelOnce ==
    (C.some /\ num_conductors >= 1) =>
        /\ \A kk \in 0..(num_conductors - 1) :
              RatSum([m \in 0..(num_conductors - 1) |-> C.val[m][kk]],
                     0..(num_conductors - 1))
                  = RatSum([i \in 1..Len(segments.val) |->
                               RatScale(returned.val[kk + 1][i], segments.val[i].length)],
                           1..Len(segments.val))
        /\ \A i \in 1..Len(segments.val) :
              Cardinality({kk \in 1..Len(rhs) : rhs[kk][i] = 1}) = 1

====
